---- MODULE Spec2Model ----
(***************************************************************************)
(* Model of src/src/lib.rs: the Pipeline adapter (a Sink over a bounded    *)
(* tokio mpsc Sender) and the shutdown-coordinated pipeline of the test    *)
(* it_works: producer -> channel "in" -> guarded stage -> channel "out"    *)
(* -> final consumer, with a one-shot shutdown signal fired by the main    *)
(* task.                                                                   *)
(*                                                                         *)
(* The bounded channel is tokio's (0.2) mpsc channel.  Its behaviour, as   *)
(* used at the call sites of lib.rs, is modelled by the Chan* operators:   *)
(*   - capacity is a semaphore of cap permits; a queued item holds one,    *)
(*     and a Sender whose poll_ready returned Ready(Ok) holds one more     *)
(*     (the reserved slot) until its next try_send or its drop;            *)
(*   - try_send with a reserved slot always enqueues, also after           *)
(*     Receiver::close;                                                    *)
(*   - Receiver::close stops new permits being handed out; poll_ready      *)
(*     without a reserved slot then returns Ready(Err(ClosedError));       *)
(*   - the receiver reports end-of-data when the queue is empty and        *)
(*     either every sender is gone or the receiver is closed and no        *)
(*     slot is reserved.                                                   *)
(* Every poll is one step, so other tasks can act between a poll_ready     *)
(* and the start_send that follows it.                                     *)
(***************************************************************************)
EXTENDS Naturals, Sequences, FiniteSets, TLC

\* Scaled-down sizes (the test uses channel(1000), channel(2000) and a
\* threshold of 100, lines 49, 50 and 90); their order is kept.
Threshold == 1
CapIn == 2
CapOut == 3
\* The producer's stream is infinite (stream::repeat); while rx_in is open
\* the model stops it after MaxItems items, enough to fill both channels
\* with an item buffered in each Forward.
MaxItems == CapIn + CapOut + 2

VARIABLES
    chIn,        \* channel tx_in / rx_in
    chOut,       \* channel tx_out / rx_out
    sigState,    \* one-shot (trigger, signal): "pending" | "sent" | "dropped"
    counter,     \* the shared AtomicUsize
    prodPc,      \* input_h: "next" | "ready" | "send" | "exit" | "done" | "panicked"
    prodItem,    \* Forward's buffered item in input_h (0: none)
    nextId,      \* number of items the producer's stream has yielded
    stagePc,     \* forward_h: "gate" | "pull" | "count" | "ready" | "send"
                 \*   | "flush" | "close" | "finish" | "done" | "panicked"
    stageItem,   \* Forward's buffered item in forward_h (0: none)
    shutdown,    \* the Option holding the signal: "Some" | "None"
    stageResult, \* forward_h's return value (counter.load at line 86)
    mainPc,      \* test body: "wait" | "spawn" | "join" | "passed" | "failed"
    consPc,      \* count_h: "idle" | "run" | "done"
    consCount,   \* the fold's accumulator
    \* history (observation only; the program never reads these)
    subIn,       \* items whose start_send into "in" returned Ok, in order
    pullIn,      \* items the stage pulled from "in", in order
    subOut,      \* items whose start_send into "out" returned Ok, in order
    pullOut,     \* items the final consumer pulled from "out", in order
    closeCalls,  \* number of rx_in.close() calls made by the gate
    sigPollFired,\* the signal was polled after the gate had fired
    bufAtClose,  \* the queue of "in" when the gate closed it
    subLate,     \* items whose start_send into "in" returned Ok after the close
    readyOpen,   \* "in" was open when the producer's last poll_ready was Ready(Ok)
    lastOp,      \* per adapter, what its last operation returned
    obs          \* the last adapter / pull operation and what it returned

vars == <<chIn, chOut, sigState, counter, prodPc, prodItem, nextId, stagePc,
          stageItem, shutdown, stageResult, mainPc, consPc, consCount,
          subIn, pullIn, subOut, pullOut, closeCalls, sigPollFired,
          bufAtClose, subLate, readyOpen, lastOp, obs>>

histVars == <<subIn, pullIn, subOut, pullOut, closeCalls, sigPollFired,
              bufAtClose, subLate, readyOpen>>

Range(s) == {s[i] : i \in 1..Len(s)}

IsPrefix(s, t) == Len(s) <= Len(t) /\ \A i \in 1..Len(s) : s[i] = t[i]

----------------------------------------------------------------------------
(* The bounded channel (tokio::sync::mpsc) as the call sites use it.       *)

NewChan(c) ==
    [q |-> <<>>, cap |-> c, permit |-> FALSE, rxClosed |-> FALSE,
     txDropped |-> FALSE]

\* Permits not held by a queued item or by the sender's reserved slot.
Available(ch) == ch.cap - Len(ch.q) - (IF ch.permit THEN 1 ELSE 0)

IsFull(ch) == Len(ch.q) >= ch.cap

\* Variant: a closed receiver is not reported; the sender is left waiting.
ChanPollReady_noClosedError(ch) ==
    IF ch.permit THEN [ch |-> ch, ret |-> "ReadyOk"]
    ELSE IF ch.rxClosed THEN [ch |-> ch, ret |-> "Pending"]
    ELSE IF Available(ch) > 0
         THEN [ch |-> [ch EXCEPT !.permit = TRUE], ret |-> "ReadyOk"]
    ELSE [ch |-> ch, ret |-> "Pending"]

\* Variant: slots are still handed out after Receiver::close.
ChanPollReady_ignoresClose(ch) ==
    IF ch.permit THEN [ch |-> ch, ret |-> "ReadyOk"]
    ELSE IF Available(ch) > 0
         THEN [ch |-> [ch EXCEPT !.permit = TRUE], ret |-> "ReadyOk"]
    ELSE IF ch.rxClosed THEN [ch |-> ch, ret |-> "ReadyErr"]
    ELSE [ch |-> ch, ret |-> "Pending"]

\* Variant: the capacity test is off by one, so a slot is handed out while
\* the queue is full.
ChanPollReady_offByOne(ch) ==
    IF ch.permit THEN [ch |-> ch, ret |-> "ReadyOk"]
    ELSE IF ch.rxClosed THEN [ch |-> ch, ret |-> "ReadyErr"]
    ELSE IF Available(ch) >= 0
         THEN [ch |-> [ch EXCEPT !.permit = TRUE], ret |-> "ReadyOk"]
    ELSE [ch |-> ch, ret |-> "Pending"]

\* Sender::poll_ready
ChanPollReady(ch) ==
    IF ch.permit THEN [ch |-> ch, ret |-> "ReadyOk"]
    ELSE IF ch.rxClosed THEN [ch |-> ch, ret |-> "ReadyErr"]
    ELSE IF Available(ch) > 0
         THEN [ch |-> [ch EXCEPT !.permit = TRUE], ret |-> "ReadyOk"]
    ELSE [ch |-> ch, ret |-> "Pending"]

\* Variant: the item is put at the head of the queue.
ChanTrySend_lifo(ch, item) ==
    IF ch.permit
    THEN [ch |-> [ch EXCEPT !.q = <<item>> \o @, !.permit = FALSE],
          ret |-> "Ok"]
    ELSE IF ch.rxClosed THEN [ch |-> ch, ret |-> "ErrClosed"]
    ELSE IF Available(ch) > 0
         THEN [ch |-> [ch EXCEPT !.q = <<item>> \o @], ret |-> "Ok"]
    ELSE [ch |-> ch, ret |-> "ErrFull"]

\* Sender::try_send
ChanTrySend(ch, item) ==
    IF ch.permit
    THEN [ch |-> [ch EXCEPT !.q = Append(@, item), !.permit = FALSE],
          ret |-> "Ok"]
    ELSE IF ch.rxClosed THEN [ch |-> ch, ret |-> "ErrClosed"]
    ELSE IF Available(ch) > 0
         THEN [ch |-> [ch EXCEPT !.q = Append(@, item)], ret |-> "Ok"]
    ELSE [ch |-> ch, ret |-> "ErrFull"]

\* Variant: closing also discards what is buffered (as dropping does).
ChanClose_discard(ch) == [ch EXCEPT !.rxClosed = TRUE, !.q = <<>>]

\* Receiver::close
ChanClose(ch) == [ch EXCEPT !.rxClosed = TRUE]

\* Variant: an empty queue is taken for end-of-data.
ChanPollRecv_emptyIsEnd(ch) ==
    IF Len(ch.q) > 0
    THEN [ch |-> [ch EXCEPT !.q = Tail(@)], ret |-> "Some", item |-> Head(ch.q)]
    ELSE [ch |-> ch, ret |-> "None", item |-> 0]

\* Variant: a closed receiver reports end-of-data without waiting for the
\* sender's reserved slot to be used or returned.
ChanPollRecv_ignoresPermit(ch) ==
    IF Len(ch.q) > 0
    THEN [ch |-> [ch EXCEPT !.q = Tail(@)], ret |-> "Some", item |-> Head(ch.q)]
    ELSE IF ch.txDropped \/ ch.rxClosed
         THEN [ch |-> ch, ret |-> "None", item |-> 0]
    ELSE [ch |-> ch, ret |-> "Pending", item |-> 0]

\* Receiver::poll_next (Stream for Receiver)
ChanPollRecv(ch) ==
    IF Len(ch.q) > 0
    THEN [ch |-> [ch EXCEPT !.q = Tail(@)], ret |-> "Some", item |-> Head(ch.q)]
    ELSE IF ch.txDropped \/ (ch.rxClosed /\ ~ch.permit)
         THEN [ch |-> ch, ret |-> "None", item |-> 0]
    ELSE [ch |-> ch, ret |-> "Pending", item |-> 0]

\* Variant: the dropped Sender returns its slot but the channel's sending
\* side stays open.
ChanDropSender_keepsOpen(ch) == [ch EXCEPT !.permit = FALSE]

\* Dropping the Sender (the adapter's only field): the reserved slot is
\* returned and, as the last sender, the channel's sending side is closed.
ChanDropSender(ch) == [ch EXCEPT !.permit = FALSE, !.txDropped = TRUE]

\* Dropping the Receiver: closes it and discards what is buffered.
ChanDropReceiver(ch) == [ch EXCEPT !.rxClosed = TRUE, !.q = <<>>]

----------------------------------------------------------------------------
(* Pipeline<T>: the Sink adapter over the Sender (lib.rs lines 5-33).      *)

\* Pipeline::new: wraps the Sender it is given.
new(inner) == inner

\* Variant: a full channel is reported as an error instead of not-ready.
poll_ready_pendingIsError(ch) ==
    LET r == ChanPollReady(ch)
    IN  IF r.ret = "Pending" THEN [ch |-> r.ch, ret |-> "ReadyErr"] ELSE r

\* Variant: readiness reported at once, as poll_flush does.
poll_ready_alwaysReady(ch) ==
    [ch |-> [ch EXCEPT !.permit = TRUE], ret |-> "ReadyOk"]

\* Sink::poll_ready: the Sender's poll_ready, passed through.
poll_ready(ch) == ChanPollReady(ch)

\* Sink::start_send: try_send, any error turned into a panic.
start_send(ch, item) ==
    LET r == ChanTrySend(ch, item)
    IN  IF r.ret = "Ok" THEN r ELSE [ch |-> r.ch, ret |-> "Panic"]

\* Sink::poll_flush
poll_flush(ch) == [ch |-> ch, ret |-> "ReadyOk"]

\* Variant: closing the sink releases the Sender.
poll_close_drops(ch) ==
    [ch |-> [ch EXCEPT !.permit = FALSE, !.txDropped = TRUE], ret |-> "ReadyOk"]

\* Sink::poll_close
poll_close(ch) == [ch |-> ch, ret |-> "ReadyOk"]

\* What the last adapter operation saw and returned.
Obs(op, ad, pre, r, raced) ==
    [op |-> op, ad |-> ad, ret |-> r.ret, full |-> IsFull(pre),
     closed |-> pre.rxClosed, same |-> (r.ch = pre), raced |-> raced]

----------------------------------------------------------------------------
Init ==
    /\ chIn = new(NewChan(CapIn))
    /\ chOut = new(NewChan(CapOut))
    /\ sigState = "pending"
    /\ counter = 0
    /\ prodPc = "next"
    /\ prodItem = 0
    /\ nextId = 0
    /\ stagePc = "gate"
    /\ stageItem = 0
    /\ shutdown = "Some"
    /\ stageResult = 0
    /\ mainPc = "wait"
    /\ consPc = "idle"
    /\ consCount = 0
    /\ subIn = <<>>
    /\ pullIn = <<>>
    /\ subOut = <<>>
    /\ pullOut = <<>>
    /\ closeCalls = 0
    /\ sigPollFired = FALSE
    /\ bufAtClose = <<>>
    /\ subLate = {}
    /\ readyOpen = FALSE
    /\ lastOp = [in |-> "none", out |-> "none"]
    /\ obs = [op |-> "none", ad |-> "none", ret |-> "none", full |-> FALSE,
              closed |-> FALSE, same |-> TRUE, raced |-> FALSE]

----------------------------------------------------------------------------
(* input_h (lines 56-59): stream::repeat forwarded into Pipeline(tx_in).   *)

\* Forward polls the stream: repeat always yields the next item.  (Once
\* rx_in is closed the next poll_ready ends the task, so no bound is needed.)
P_next ==
    /\ prodPc = "next"
    /\ (nextId < MaxItems \/ chIn.rxClosed)
    /\ nextId' = nextId + 1
    /\ prodItem' = nextId + 1
    /\ prodPc' = "ready"
    /\ UNCHANGED <<chIn, chOut, sigState, counter, stagePc, stageItem,
                   shutdown, stageResult, mainPc, consPc, consCount>>
    /\ UNCHANGED histVars
    /\ UNCHANGED obs
    /\ UNCHANGED lastOp

\* Variant: the item is submitted although poll_ready was not ready.
P_ready_sendsOnPending ==
    /\ prodPc = "ready"
    /\ LET r == poll_ready(chIn)
       IN  /\ chIn' = r.ch
           /\ prodPc' = CASE r.ret = "ReadyErr" -> "exit"
                          [] OTHER -> "send"
           /\ readyOpen' = IF r.ret = "ReadyOk" THEN ~chIn.rxClosed ELSE readyOpen
           /\ obs' = Obs("poll_ready", "in", chIn, r, FALSE)
           /\ lastOp' = [lastOp EXCEPT !.in = r.ret]
    /\ UNCHANGED <<chOut, sigState, counter, prodItem, nextId, stagePc,
                   stageItem, shutdown, stageResult, mainPc, consPc, consCount>>
    /\ UNCHANGED <<subIn, pullIn, subOut, pullOut, closeCalls, sigPollFired,
                   bufAtClose, subLate>>

\* Forward has an item buffered: poll_ready on the adapter.
P_ready ==
    /\ prodPc = "ready"
    /\ LET r == poll_ready(chIn)
       IN  /\ chIn' = r.ch
           /\ prodPc' = CASE r.ret = "ReadyOk" -> "send"
                          [] r.ret = "ReadyErr" -> "exit"
                          [] OTHER -> "ready"
           /\ readyOpen' = IF r.ret = "ReadyOk" THEN ~chIn.rxClosed ELSE readyOpen
           /\ obs' = Obs("poll_ready", "in", chIn, r, FALSE)
           /\ lastOp' = [lastOp EXCEPT !.in = r.ret]
    /\ UNCHANGED <<chOut, sigState, counter, prodItem, nextId, stagePc,
                   stageItem, shutdown, stageResult, mainPc, consPc, consCount>>
    /\ UNCHANGED <<subIn, pullIn, subOut, pullOut, closeCalls, sigPollFired,
                   bufAtClose, subLate>>

\* start_send of the buffered item.
P_send ==
    /\ prodPc = "send"
    /\ LET r == start_send(chIn, prodItem)
       IN  /\ chIn' = r.ch
           /\ prodPc' = IF r.ret = "Ok" THEN "next" ELSE "panicked"
           /\ subIn' = IF r.ret = "Ok" THEN Append(subIn, prodItem) ELSE subIn
           /\ lastOp' = [lastOp EXCEPT !.in = "sent"]
           /\ subLate' = IF r.ret = "Ok" /\ chIn.rxClosed
                         THEN subLate \cup {prodItem} ELSE subLate
           /\ obs' = Obs("start_send", "in", chIn, r,
                         readyOpen /\ chIn.rxClosed)
    /\ prodItem' = 0
    /\ UNCHANGED <<chOut, sigState, counter, nextId, stagePc, stageItem,
                   shutdown, stageResult, mainPc, consPc, consCount>>
    /\ UNCHANGED <<pullIn, subOut, pullOut, closeCalls, sigPollFired,
                   bufAtClose, readyOpen>>

\* forward returned Err: .ok() discards it, the task ends and the adapter
\* (with its Sender) is dropped.
P_exit ==
    /\ prodPc = "exit"
    /\ chIn' = ChanDropSender(chIn)
    /\ prodPc' = "done"
    /\ prodItem' = 0
    /\ UNCHANGED <<chOut, sigState, counter, nextId, stagePc, stageItem,
                   shutdown, stageResult, mainPc, consPc, consCount>>
    /\ UNCHANGED histVars
    /\ UNCHANGED obs
    /\ UNCHANGED lastOp

Producer == P_next \/ P_ready \/ P_send \/ P_exit

----------------------------------------------------------------------------
(* forward_h (lines 63-87): the guarded pull, counted, forwarded into      *)
(* Pipeline(tx_out).                                                       *)

\* Variant: only a sent value fires the gate (Poll::Ready(Ok(_))).
S_gate_sentOnly ==
    /\ stagePc = "gate"
    /\ IF shutdown = "Some" /\ sigState = "sent"
       THEN /\ shutdown' = "None"
            /\ chIn' = ChanClose(chIn)
            /\ closeCalls' = closeCalls + 1
            /\ bufAtClose' = chIn.q
       ELSE UNCHANGED <<shutdown, chIn, closeCalls, bufAtClose>>
    /\ sigPollFired' = (sigPollFired \/ (shutdown = "Some" /\ closeCalls > 0))
    /\ stagePc' = "pull"
    /\ UNCHANGED <<chOut, sigState, counter, prodPc, prodItem, nextId,
                   stageItem, stageResult, mainPc, consPc, consCount>>
    /\ UNCHANGED <<subIn, pullIn, subOut, pullOut, subLate, readyOpen>>
    /\ UNCHANGED obs
    /\ UNCHANGED lastOp

\* Variant: the signal is left in the Option after it was seen ready.
S_gate_keepsSignal ==
    /\ stagePc = "gate"
    /\ IF shutdown = "Some" /\ sigState # "pending"
       THEN /\ chIn' = ChanClose(chIn)
            /\ closeCalls' = closeCalls + 1
            /\ bufAtClose' = chIn.q
            /\ UNCHANGED shutdown
       ELSE UNCHANGED <<shutdown, chIn, closeCalls, bufAtClose>>
    /\ sigPollFired' = (sigPollFired \/ (shutdown = "Some" /\ closeCalls > 0))
    /\ stagePc' = "pull"
    /\ UNCHANGED <<chOut, sigState, counter, prodPc, prodItem, nextId,
                   stageItem, stageResult, mainPc, consPc, consCount>>
    /\ UNCHANGED <<subIn, pullIn, subOut, pullOut, subLate, readyOpen>>
    /\ UNCHANGED obs
    /\ UNCHANGED lastOp

\* Variant: a pending signal is taken for a ready one.
S_gate_pendingIsReady ==
    /\ stagePc = "gate"
    /\ IF shutdown = "Some"
       THEN /\ shutdown' = "None"
            /\ chIn' = ChanClose(chIn)
            /\ closeCalls' = closeCalls + 1
            /\ bufAtClose' = chIn.q
       ELSE UNCHANGED <<shutdown, chIn, closeCalls, bufAtClose>>
    /\ sigPollFired' = (sigPollFired \/ (shutdown = "Some" /\ closeCalls > 0))
    /\ stagePc' = "pull"
    /\ UNCHANGED <<chOut, sigState, counter, prodPc, prodItem, nextId,
                   stageItem, stageResult, mainPc, consPc, consCount>>
    /\ UNCHANGED <<subIn, pullIn, subOut, pullOut, subLate, readyOpen>>
    /\ UNCHANGED obs
    /\ UNCHANGED lastOp

\* The poll_fn closure, first half (lines 66-74): while the Option still
\* holds the signal, poll it; when it is ready (Poll::Ready(_): a value was
\* sent, or the trigger was dropped), take it out of the Option and close
\* rx_in.
S_gate ==
    /\ stagePc = "gate"
    /\ IF shutdown = "Some" /\ sigState # "pending"
       THEN /\ shutdown' = "None"
            /\ chIn' = ChanClose(chIn)
            /\ closeCalls' = closeCalls + 1
            /\ bufAtClose' = chIn.q
       ELSE UNCHANGED <<shutdown, chIn, closeCalls, bufAtClose>>
    /\ sigPollFired' = (sigPollFired \/ (shutdown = "Some" /\ closeCalls > 0))
    /\ stagePc' = "pull"
    /\ UNCHANGED <<chOut, sigState, counter, prodPc, prodItem, nextId,
                   stageItem, stageResult, mainPc, consPc, consCount>>
    /\ UNCHANGED <<subIn, pullIn, subOut, pullOut, subLate, readyOpen>>
    /\ UNCHANGED obs
    /\ UNCHANGED lastOp

\* The poll_fn closure, second half (line 76): rx_in.poll_next_unpin.
S_pull ==
    /\ stagePc = "pull"
    /\ LET r == ChanPollRecv(chIn)
       IN  /\ chIn' = r.ch
           /\ stageItem' = r.item
           /\ stagePc' = CASE r.ret = "Some" -> "count"
                           [] r.ret = "None" -> "close"
                           [] OTHER -> "flush"
           /\ pullIn' = IF r.ret = "Some" THEN Append(pullIn, r.item) ELSE pullIn
    /\ UNCHANGED <<chOut, sigState, counter, prodPc, prodItem, nextId,
                   shutdown, stageResult, mainPc, consPc, consCount>>
    /\ UNCHANGED <<subIn, subOut, pullOut, closeCalls, sigPollFired,
                   bufAtClose, subLate, readyOpen>>
    /\ UNCHANGED obs
    /\ UNCHANGED lastOp

\* Variant: the item is passed on without being counted.
S_count_skips ==
    /\ stagePc = "count"
    /\ stagePc' = "ready"
    /\ UNCHANGED <<chIn, chOut, sigState, prodPc, prodItem, nextId, counter,
                   stageItem, shutdown, stageResult, mainPc, consPc, consCount>>
    /\ UNCHANGED histVars
    /\ UNCHANGED obs
    /\ UNCHANGED lastOp

\* inspect (lines 78-80): counter.fetch_add(1).
S_count ==
    /\ stagePc = "count"
    /\ counter' = counter + 1
    /\ stagePc' = "ready"
    /\ UNCHANGED <<chIn, chOut, sigState, prodPc, prodItem, nextId,
                   stageItem, shutdown, stageResult, mainPc, consPc, consCount>>
    /\ UNCHANGED histVars
    /\ UNCHANGED obs
    /\ UNCHANGED lastOp

\* Dropping forward_h's future after a panic: the closure's rx_in and the
\* adapter's tx_out go with it.
StagePanic ==
    /\ stagePc' = "panicked"
    /\ stageItem' = 0

\* Forward has an item buffered: poll_ready on the adapter; an error is
\* returned by forward and unwrapped (line 84).
S_ready ==
    /\ stagePc = "ready"
    /\ LET r == poll_ready(chOut)
       IN  /\ obs' = Obs("poll_ready", "out", chOut, r, FALSE)
           /\ lastOp' = [lastOp EXCEPT !.out = r.ret]
           /\ IF r.ret = "ReadyErr"
              THEN /\ StagePanic
                   /\ chOut' = ChanDropSender(r.ch)
                   /\ chIn' = ChanDropReceiver(chIn)
              ELSE /\ stagePc' = IF r.ret = "ReadyOk" THEN "send" ELSE "ready"
                   /\ chOut' = r.ch
                   /\ UNCHANGED <<chIn, stageItem>>
    /\ UNCHANGED <<sigState, counter, prodPc, prodItem, nextId, shutdown,
                   stageResult, mainPc, consPc, consCount>>
    /\ UNCHANGED histVars

\* start_send of the buffered item.
S_send ==
    /\ stagePc = "send"
    /\ LET r == start_send(chOut, stageItem)
       IN  /\ obs' = Obs("start_send", "out", chOut, r, FALSE)
           /\ lastOp' = [lastOp EXCEPT !.out = "sent"]
           /\ subOut' = IF r.ret = "Ok" THEN Append(subOut, stageItem) ELSE subOut
           /\ IF r.ret = "Ok"
              THEN /\ stagePc' = "gate"
                   /\ stageItem' = 0
                   /\ chOut' = r.ch
                   /\ UNCHANGED chIn
              ELSE /\ StagePanic
                   /\ chOut' = ChanDropSender(r.ch)
                   /\ chIn' = ChanDropReceiver(chIn)
    /\ UNCHANGED <<sigState, counter, prodPc, prodItem, nextId, shutdown,
                   stageResult, mainPc, consPc, consCount>>
    /\ UNCHANGED <<subIn, pullIn, pullOut, closeCalls, sigPollFired,
                   bufAtClose, subLate, readyOpen>>

\* The stream was pending: Forward flushes the sink and returns Pending;
\* the next poll runs the closure again from its start.
S_flush ==
    /\ stagePc = "flush"
    /\ LET r == poll_flush(chOut)
       IN  /\ obs' = Obs("poll_flush", "out", chOut, r, FALSE)
           /\ lastOp' = [lastOp EXCEPT !.out = "flushed"]
           /\ chOut' = r.ch
           /\ stagePc' = IF r.ret = "ReadyOk" THEN "gate" ELSE "flush"
    /\ UNCHANGED <<chIn, sigState, counter, prodPc, prodItem, nextId,
                   stageItem, shutdown, stageResult, mainPc, consPc, consCount>>
    /\ UNCHANGED histVars

\* The stream ended: Forward closes the sink and returns Ok.
S_close ==
    /\ stagePc = "close"
    /\ LET r == poll_close(chOut)
       IN  /\ obs' = Obs("poll_close", "out", chOut, r, FALSE)
           /\ lastOp' = [lastOp EXCEPT !.out = "closed"]
           /\ chOut' = r.ch
           /\ stagePc' = IF r.ret = "ReadyOk" THEN "finish" ELSE "close"
    /\ UNCHANGED <<chIn, sigState, counter, prodPc, prodItem, nextId,
                   stageItem, shutdown, stageResult, mainPc, consPc, consCount>>
    /\ UNCHANGED histVars

\* unwrap of Ok (line 84), the Forward future (adapter and closure) is
\* dropped, and the task returns counter.load (line 86).
S_finish ==
    /\ stagePc = "finish"
    /\ chOut' = ChanDropSender(chOut)
    /\ chIn' = ChanDropReceiver(chIn)
    /\ stageResult' = counter
    /\ stagePc' = "done"
    /\ UNCHANGED <<sigState, counter, prodPc, prodItem, nextId, stageItem,
                   shutdown, mainPc, consPc, consCount>>
    /\ UNCHANGED histVars
    /\ UNCHANGED obs
    /\ UNCHANGED lastOp

Stage ==
    \/ S_gate
    \/ S_pull
    \/ S_count
    \/ S_ready
    \/ S_send
    \/ S_flush
    \/ S_close
    \/ S_finish

----------------------------------------------------------------------------
(* The test body (lines 89-103) and count_h (lines 96-97).                 *)

\* The wait loop saw counter >= 100 (scaled: Threshold); trigger.send(()),
\* unwrapped: sending fails when the signal's receiver is already gone.
M_trigger ==
    /\ mainPc = "wait"
    /\ counter >= Threshold
    /\ IF shutdown = "Some" /\ stagePc \in {"done", "panicked"}
       THEN /\ mainPc' = "failed"
            /\ UNCHANGED sigState
       ELSE /\ sigState' = "sent"
            /\ mainPc' = "spawn"
    /\ UNCHANGED <<chIn, chOut, counter, prodPc, prodItem, nextId, stagePc,
                   stageItem, shutdown, stageResult, consPc, consCount>>
    /\ UNCHANGED histVars
    /\ UNCHANGED obs
    /\ UNCHANGED lastOp

\* tokio::spawn of the fold over rx_out.
M_spawn ==
    /\ mainPc = "spawn"
    /\ consPc' = "run"
    /\ mainPc' = "join"
    /\ UNCHANGED <<chIn, chOut, sigState, counter, prodPc, prodItem, nextId,
                   stagePc, stageItem, shutdown, stageResult, consCount>>
    /\ UNCHANGED histVars
    /\ UNCHANGED obs
    /\ UNCHANGED lastOp

\* The three joins, each unwrapped, and the assert_eq.
M_join ==
    /\ mainPc = "join"
    /\ prodPc \in {"done", "panicked"}
    /\ stagePc \in {"done", "panicked"}
    /\ consPc = "done"
    /\ mainPc' = IF /\ prodPc = "done"
                    /\ stagePc = "done"
                    /\ stageResult = consCount
                 THEN "passed" ELSE "failed"
    /\ UNCHANGED <<chIn, chOut, sigState, counter, prodPc, prodItem, nextId,
                   stagePc, stageItem, shutdown, stageResult, consPc, consCount>>
    /\ UNCHANGED histVars
    /\ UNCHANGED obs
    /\ UNCHANGED lastOp

Main == M_trigger \/ M_spawn \/ M_join

\* One step of rx_out.fold(0, |acc, _| acc + 1); a pending receiver
\* suspends the task.
C_recv ==
    /\ consPc = "run"
    /\ LET r == ChanPollRecv(chOut)
       IN  /\ r.ret # "Pending"
           /\ chOut' = r.ch
           /\ consCount' = IF r.ret = "Some" THEN consCount + 1 ELSE consCount
           /\ pullOut' = IF r.ret = "Some" THEN Append(pullOut, r.item) ELSE pullOut
           /\ consPc' = IF r.ret = "None" THEN "done" ELSE "run"
    /\ UNCHANGED <<chIn, sigState, counter, prodPc, prodItem, nextId, stagePc,
                   stageItem, shutdown, stageResult, mainPc>>
    /\ UNCHANGED <<subIn, pullIn, subOut, closeCalls, sigPollFired,
                   bufAtClose, subLate, readyOpen>>
    /\ UNCHANGED obs
    /\ UNCHANGED lastOp

Consumer == C_recv

----------------------------------------------------------------------------
Next == Producer \/ Stage \/ Main \/ Consumer

Spec == Init /\ [][Next]_vars

\* The scheduler polls every task that can run again and again.
FairSpec ==
    /\ Spec
    /\ WF_vars(Producer)
    /\ WF_vars(Stage)
    /\ WF_vars(Main)
    /\ WF_vars(Consumer)

\* The pipeline with a downstream that may close rx_out at any time (the
\* case of section 4.3 of the specification; the test's fold never does).
R_close ==
    /\ ~chOut.rxClosed
    /\ ~chOut.txDropped
    /\ chOut' = ChanClose(chOut)
    /\ UNCHANGED <<chIn, sigState, counter, prodPc, prodItem, nextId, stagePc,
                   stageItem, shutdown, stageResult, mainPc, consPc, consCount>>
    /\ UNCHANGED histVars
    /\ UNCHANGED obs
    /\ UNCHANGED lastOp

NextDownClosed == Next \/ R_close

SpecDownClosed == Init /\ [][NextDownClosed]_vars

\* The pipeline with a trigger that may be dropped without sending (the
\* case of section 4.2 of the specification; the test always sends): the
\* signal then resolves to Ready(Err(RecvError)).
T_drop ==
    /\ mainPc = "wait"
    /\ sigState = "pending"
    /\ sigState' = "dropped"
    /\ mainPc' = "spawn"
    /\ UNCHANGED <<chIn, chOut, counter, prodPc, prodItem, nextId, stagePc,
                   stageItem, shutdown, stageResult, consPc, consCount>>
    /\ UNCHANGED histVars
    /\ UNCHANGED obs
    /\ UNCHANGED lastOp

NextTriggerDropped == Next \/ T_drop

SpecTriggerDropped == Init /\ [][NextTriggerDropped]_vars

FairSpecTriggerDropped ==
    /\ SpecTriggerDropped
    /\ WF_vars(Producer)
    /\ WF_vars(Stage)
    /\ WF_vars(Main)
    /\ WF_vars(Consumer)

\* When a task can make progress: a task whose last poll was pending runs
\* again only once what it waits for has changed.
ProducerRunnable ==
    \/ prodPc \in {"next", "send", "exit"}
    \/ prodPc = "ready" /\ poll_ready(chIn).ret # "Pending"

StageRunnable ==
    \/ stagePc \in {"count", "send", "close", "finish"}
    \/ stagePc = "ready" /\ poll_ready(chOut).ret # "Pending"
    \/ /\ stagePc \in {"gate", "pull", "flush"}
       /\ \/ shutdown = "Some" /\ sigState # "pending"
          \/ ChanPollRecv(chIn).ret # "Pending"

MainRunnable ==
    \/ mainPc = "wait" /\ counter >= Threshold
    \/ mainPc = "spawn"
    \/ /\ mainPc = "join"
       /\ prodPc \in {"done", "panicked"}
       /\ stagePc \in {"done", "panicked"}
       /\ consPc = "done"

ConsumerRunnable == consPc = "run" /\ ChanPollRecv(chOut).ret # "Pending"

AllDone ==
    /\ prodPc \in {"done", "panicked"}
    /\ stagePc \in {"done", "panicked"}
    /\ consPc = "done"
    /\ mainPc \in {"passed", "failed"}

----------------------------------------------------------------------------
NoDup(s) == \A i, j \in 1..Len(s) : s[i] = s[j] => i = j

\* C1: once the guarded stage and the final consumer have both completed,
\* the number of items the consumer received equals the counter value the
\* stage returned.
C1_CountEquality ==
    (stagePc = "done" /\ consPc = "done") => consCount = stageResult

C1_Witness ==
    /\ stagePc = "done"
    /\ consPc = "done"
    /\ mainPc = "passed"
    /\ consCount >= Threshold + 1

\* C2: every item whose start_send into the guarded channel returned Ok is
\* eventually submitted to the downstream channel, exactly once, whenever the
\* signal fires; the stage never submits an item twice or one that was not
\* sent, and it does not complete with a sent item unforwarded.
C2_ExactlyOnce ==
    /\ [](/\ NoDup(subOut)
          /\ Range(subOut) \subseteq Range(subIn)
          /\ (stagePc = "done" => Range(subIn) \subseteq Range(subOut)))
    /\ \A i \in 1..MaxItems : (i \in Range(subIn)) ~> (i \in Range(subOut))

\* An item sent with a slot reserved before the close went through.
C2_Witness ==
    /\ subLate # {}
    /\ subLate \subseteq Range(subOut)
    /\ stagePc = "done"

\* C3: every item buffered in the guarded channel when the gate closed it
\* has been submitted downstream by the time the stage completes.
C3_DrainAfterClose ==
    stagePc \in {"finish", "done"} => Range(bufAtClose) \subseteq Range(subOut)

C3_Witness ==
    /\ stagePc = "done"
    /\ closeCalls = 1
    /\ Len(bufAtClose) = CapIn

\* C4 (as claimed): a start_send that follows a ready poll_ready, with the
\* receiver closed in between, returns the closed error.
C4_ClosedErrorOnRace ==
    (obs.op = "start_send" /\ obs.raced) => obs.ret = "ErrClosed"

\* C5 (as claimed): when the stage cannot submit because the downstream
\* receiver is closed, it does not end in a panic.
C5_OrderlyStop ==
    (obs.ad = "out" /\ obs.closed /\ obs.ret \in {"ReadyErr", "Panic"})
        => stagePc # "panicked"

C7_Fifo ==
    /\ IsPrefix(pullIn, subIn)
    /\ IsPrefix(subOut, pullIn)
    /\ IsPrefix(pullOut, subOut)
    /\ IsPrefix(pullOut, subIn)

C7_Witness ==
    /\ Len(pullOut) >= CapIn + CapOut
    /\ pullOut = subIn

\* C8: the gate fires at most once and never re-arms: rx_in.close() is
\* called at most once, only by the step that empties the Option, and the
\* signal is not polled once the gate has fired.
C8_GateFiresOnce ==
    /\ [](/\ closeCalls <= 1
          /\ (shutdown = "Some" <=> closeCalls = 0)
          /\ ~sigPollFired)
    /\ [][shutdown = "None" => shutdown' = "None" /\ closeCalls' = closeCalls]_vars

\* The gate was passed again after it fired.
C8_Witness ==
    /\ closeCalls = 1
    /\ shutdown = "None"
    /\ Len(bufAtClose) >= 2
    /\ Range(bufAtClose) \subseteq Range(pullIn)

\* The pull of a receiver that no gate has closed.
UnguardedPull(ch) == ChanPollRecv([ch EXCEPT !.rxClosed = FALSE])

\* C9: while the signal has not fired, the gate leaves the receiver and the
\* Option alone and the guarded pull returns what an unguarded pull of the
\* receiver returns.
C9_PassThrough ==
    [][sigState = "pending" =>
         /\ (stagePc = "gate" /\ stagePc' # "gate"
                => chIn' = chIn /\ shutdown' = shutdown /\ stagePc' = "pull")
         /\ (stagePc = "pull" /\ stagePc' # "pull"
                => LET u == UnguardedPull(chIn)
                   IN  /\ chIn' = u.ch
                       /\ stageItem' = u.item
                       /\ stagePc' = CASE u.ret = "Some" -> "count"
                                       [] u.ret = "None" -> "close"
                                       [] OTHER -> "flush")]_vars

C9_Witness ==
    /\ sigState = "pending"
    /\ stagePc = "count"
    /\ Len(pullIn) >= 1
    /\ chIn.permit

\* C10: poll_flush and poll_close return Ready(Ok) at once and leave the
\* channel as it was; the Sender is released only when the adapter is
\* dropped.
C10_FlushCloseNoOp ==
    /\ (obs.op \in {"poll_flush", "poll_close"}
            => obs.ret = "ReadyOk" /\ obs.same)
    /\ (stagePc \in {"flush", "close", "finish"} => ~chOut.txDropped)

C10_Witness ==
    /\ obs.op = "poll_close"
    /\ obs.full
    /\ obs.closed
    /\ stagePc = "finish"

\* C11: under fair scheduling, once the trigger has fired the producer, the
\* guarded stage and the final consumer each complete, and none of them ends
\* in a panic.
C11_AllTerminate ==
    /\ [](prodPc # "panicked" /\ stagePc # "panicked")
    /\ (sigState = "sent")
           ~> (prodPc = "done" /\ stagePc = "done" /\ consPc = "done")

C11_Witness ==
    /\ sigState = "sent"
    /\ prodPc = "done"
    /\ stagePc = "done"
    /\ consPc = "done"
    /\ nextId > Len(subIn)

C13_CounterAhead ==
    /\ [](/\ counter >= Len(subOut)
          /\ (stagePc \in {"ready", "send"} => counter = Len(subOut) + 1)
          /\ (stagePc = "done" => counter = Len(subOut) /\ stageResult = counter))
    /\ [][counter' >= counter]_vars

C13_Witness ==
    /\ stagePc = "send"
    /\ counter = Len(subOut) + 1
    /\ Len(subOut) >= Threshold

C15_DroppedTriggerFires ==
    /\ [][(sigState = "dropped" /\ shutdown = "Some"
              /\ stagePc = "gate" /\ stagePc' # "gate")
            => (shutdown' = "None" /\ chIn'.rxClosed /\ closeCalls' = 1)]_vars
    /\ (sigState = "dropped") ~> (stagePc = "done")

C15_Witness ==
    /\ sigState = "dropped"
    /\ stagePc = "done"
    /\ closeCalls = 1
    /\ Len(bufAtClose) >= 1
    /\ Range(bufAtClose) \subseteq Range(subOut)

\* C16: on each adapter a start_send is made only right after a poll_ready
\* of that adapter returned ready, with the slot it reserved still held.
C16_ReadyBeforeSend ==
    /\ [](/\ (prodPc = "send" => lastOp.in = "ReadyOk" /\ chIn.permit)
          /\ (stagePc = "send" => lastOp.out = "ReadyOk" /\ chOut.permit))
    /\ [][/\ (subIn' # subIn \/ (lastOp'.in = "sent" /\ lastOp.in # "sent")
                 => prodPc = "send" /\ lastOp.in = "ReadyOk")
          /\ (subOut' # subOut \/ (lastOp'.out = "sent" /\ lastOp.out # "sent")
                 => stagePc = "send" /\ lastOp.out = "ReadyOk")]_vars

\* Both adapters have sent after having been not-ready.
C16_Witness ==
    /\ lastOp.in = "sent"
    /\ lastOp.out = "sent"
    /\ Len(subIn) > CapIn + CapOut
    /\ Len(subOut) > CapOut

\* C17: in each channel the queued items plus the reserved slot never exceed
\* the capacity, and every submitted item is in the channel until it is
\* pulled: none is held by the adapter, none is still with the caller.
C17_CapacityAndNoBuffer ==
    /\ Len(chIn.q) + (IF chIn.permit THEN 1 ELSE 0) <= CapIn
    /\ Len(chOut.q) + (IF chOut.permit THEN 1 ELSE 0) <= CapOut
    /\ subIn = pullIn \o chIn.q
    /\ subOut = pullOut \o chOut.q
    /\ (prodItem # 0 => prodItem \notin Range(subIn))
    /\ (stageItem # 0 => stageItem \notin Range(subOut))

C17_Witness ==
    /\ Len(chIn.q) = CapIn - 1
    /\ chIn.permit
    /\ Len(chOut.q) = CapOut - 1
    /\ chOut.permit

\* C18: in every state some task can make progress unless all four have
\* ended.
C18_NoDeadlock ==
    \/ AllDone
    \/ ProducerRunnable
    \/ StageRunnable
    \/ MainRunnable
    \/ ConsumerRunnable

\* The trigger has fired, the consumer has not started, both channels are
\* full and both forwarding tasks are suspended on them.
C18_Witness ==
    /\ sigState = "sent"
    /\ consPc = "idle"
    /\ IsFull(chOut)
    /\ IsFull(chIn)
    /\ stagePc = "ready"
    /\ prodPc = "ready"
    /\ ~StageRunnable
    /\ ~ProducerRunnable

====
